---- MODULE Spec2Model ----
(***************************************************************************)
(* Model of homework.py: the fitness tracker's training classes            *)
(* (Training, Running, SportsWalking, Swimming), the dispatcher            *)
(* read_package, the report InfoMessage and the driver main.               *)
(*                                                                         *)
(* Numbers.  Python's int and float values are modelled as exact rationals *)
(* <<n, d>> in lowest terms with d > 0.  <<0, 0>> stands for "the          *)
(* expression raised ZeroDivisionError" and is absorbing.  The inputs are  *)
(* chosen so that no result lies on a rounding tie of the "{:.3f}"         *)
(* conversion, where binary floating point and exact arithmetic could      *)
(* differ.                                                                 *)
(*                                                                         *)
(* Text.  A rendered message is a sequence of segments, each a sequence of *)
(* strings: a literal of the template is one string, a formatted number is *)
(* its characters one by one.  The template's Cyrillic literals are        *)
(* written in Latin transliteration.                                       *)
(***************************************************************************)
EXTENDS Integers, Sequences, FiniteSets, TLC

VARIABLES pc, workout_type, data, training, info, result, error

vars == <<pc, workout_type, data, training, info, result, error>>

(***************************************************************************)
(* Bounds of the model.                                                    *)
(***************************************************************************)
\* Longest argument list handed to read_package.
MaxArgs == 6

(***************************************************************************)
(* Exact rational arithmetic standing for Python's numeric operators.      *)
(***************************************************************************)
Abs(n) == IF n < 0 THEN -n ELSE n

RECURSIVE GCD(_, _)
GCD(a, b) == IF b = 0 THEN a ELSE GCD(b, a % b)

\* The raised ZeroDivisionError, as a value.
ZeroDiv == <<0, 0>>

IsZeroDiv(x) == x[2] = 0

Norm(n, d) ==
    LET g == GCD(Abs(n), Abs(d))
        s == IF d < 0 THEN -1 ELSE 1
    IN  <<(s * n) \div g, (s * d) \div g>>

Num(n) == <<n, 1>>

Add(x, y) ==
    IF IsZeroDiv(x) \/ IsZeroDiv(y) THEN ZeroDiv
    ELSE Norm(x[1] * y[2] + y[1] * x[2], x[2] * y[2])

Sub(x, y) ==
    IF IsZeroDiv(x) \/ IsZeroDiv(y) THEN ZeroDiv
    ELSE Norm(x[1] * y[2] - y[1] * x[2], x[2] * y[2])

Mul(x, y) ==
    IF IsZeroDiv(x) \/ IsZeroDiv(y) THEN ZeroDiv
    ELSE Norm(x[1] * y[1], x[2] * y[2])

\* x / y: raises ZeroDivisionError when y is zero.
Div(x, y) ==
    IF IsZeroDiv(x) \/ IsZeroDiv(y) \/ y[1] = 0 THEN ZeroDiv
    ELSE Norm(x[1] * y[2], x[2] * y[1])

\* x // y: the quotient rounded towards minus infinity (TLA+'s \div floors).
FloorDiv(x, y) ==
    IF IsZeroDiv(x) \/ IsZeroDiv(y) \/ y[1] = 0 THEN ZeroDiv
    ELSE LET q == Norm(x[1] * y[2], x[2] * y[1])
         IN  Num(q[1] \div q[2])

\* x ** 2
Square(x) == Mul(x, x)

(***************************************************************************)
(* Class constants.                                                        *)
(***************************************************************************)
M_IN_KM == 1000

MIN_IN_HOUR == 60

Training_LEN_STEP == <<13, 20>>

Swimming_LEN_STEP == <<69, 50>>

\* The lookup without Swimming's override.
BaseLEN_STEP(t) == Training_LEN_STEP

\* Attribute lookup self.LEN_STEP: Swimming overrides the base value.
LEN_STEP(t) ==
    IF t.cls = "Swimming" THEN Swimming_LEN_STEP ELSE Training_LEN_STEP

Running_COEFF_CALORIE_1 == 18

Running_COEFF_CALORIE_2 == 20

SportsWalking_COEFF_CALORIE_1 == <<35, 1000>>

SportsWalking_COEFF_CALORIE_2 == <<29, 1000>>

Swimming_COEFF_CALORIE_1 == <<11, 10>>

Swimming_COEFF_CALORIE_2 == 2

(***************************************************************************)
(* Constructors.                                                           *)
(***************************************************************************)
None == [cls |-> "None"]

Training_init(cls, action, duration, weight) ==
    [cls |-> cls, action |-> action, duration_hour |-> duration,
     weight |-> weight]

Running_init(action, duration, weight) ==
    Training_init("Running", action, duration, weight)

SportsWalking_init(action, duration, weight, height) ==
    [cls |-> "SportsWalking", action |-> action, duration_hour |-> duration,
     weight |-> weight, height |-> height]

Swimming_init_swapped(action, duration, weight, length_pool, count_pool) ==
    [cls |-> "Swimming", action |-> action, duration_hour |-> duration,
     weight |-> weight, length_pool |-> count_pool, count_pool |-> length_pool]

Swimming_init(action, duration, weight, length_pool, count_pool) ==
    [cls |-> "Swimming", action |-> action, duration_hour |-> duration,
     weight |-> weight, length_pool |-> length_pool, count_pool |-> count_pool]

(***************************************************************************)
(* Methods.                                                                *)
(***************************************************************************)
get_distance_base_step(t) ==
    Div(Mul(t.action, BaseLEN_STEP(t)), Num(M_IN_KM))

get_distance(t) ==
    Div(Mul(t.action, LEN_STEP(t)), Num(M_IN_KM))

Training_get_mean_speed(t) == Div(get_distance(t), t.duration_hour)

Swimming_get_mean_speed_stride(t) == Training_get_mean_speed(t)

Swimming_get_mean_speed(t) ==
    Div(Div(Mul(t.length_pool, t.count_pool), Num(M_IN_KM)), t.duration_hour)

\* Method resolution of self.get_mean_speed().
get_mean_speed(t) ==
    IF t.cls = "Swimming" THEN Swimming_get_mean_speed(t)
    ELSE Training_get_mean_speed(t)

Running_get_spent_calories_per_minute(t) ==
    Mul(Div(Mul(Sub(Mul(Num(Running_COEFF_CALORIE_1), get_mean_speed(t)),
                    Num(Running_COEFF_CALORIE_2)),
                t.weight),
            Num(M_IN_KM)),
        t.duration_hour)

Running_get_spent_calories(t) ==
    Mul(Mul(Div(Mul(Sub(Mul(Num(Running_COEFF_CALORIE_1), get_mean_speed(t)),
                        Num(Running_COEFF_CALORIE_2)),
                    t.weight),
                Num(M_IN_KM)),
            Num(MIN_IN_HOUR)),
        t.duration_hour)

SportsWalking_get_spent_calories_truediv(t) ==
    Mul(Mul(Add(Mul(SportsWalking_COEFF_CALORIE_1, t.weight),
                Mul(Mul(Div(Square(get_mean_speed(t)), t.height),
                        SportsWalking_COEFF_CALORIE_2),
                    t.weight)),
            Num(MIN_IN_HOUR)),
        t.duration_hour)

SportsWalking_get_spent_calories(t) ==
    Mul(Mul(Add(Mul(SportsWalking_COEFF_CALORIE_1, t.weight),
                Mul(Mul(FloorDiv(Square(get_mean_speed(t)), t.height),
                        SportsWalking_COEFF_CALORIE_2),
                    t.weight)),
            Num(MIN_IN_HOUR)),
        t.duration_hour)

Swimming_get_spent_calories(t) ==
    Mul(Mul(Add(get_mean_speed(t), Swimming_COEFF_CALORIE_1),
            Num(Swimming_COEFF_CALORIE_2)),
        t.weight)

\* Method resolution of self.get_spent_calories().
get_spent_calories(t) ==
    CASE t.cls = "Running" -> Running_get_spent_calories(t)
      [] t.cls = "SportsWalking" -> SportsWalking_get_spent_calories(t)
      [] t.cls = "Swimming" -> Swimming_get_spent_calories(t)

InfoMessage(training_type, duration, distance, speed, calories) ==
    [training_type |-> training_type, duration |-> duration,
     distance |-> distance, speed |-> speed, calories |-> calories]

NoInfo == [training_type |-> "None"]

show_training_info_base_speed(t) ==
    InfoMessage(t.cls, t.duration_hour, get_distance(t),
                Training_get_mean_speed(t), get_spent_calories(t))

show_training_info(t) ==
    InfoMessage(t.cls, t.duration_hour, get_distance(t),
                get_mean_speed(t), get_spent_calories(t))

\* Whether evaluating show_training_info raises ZeroDivisionError.
ShowRaises(t) ==
    \/ IsZeroDiv(get_distance(t))
    \/ IsZeroDiv(get_mean_speed(t))
    \/ IsZeroDiv(get_spent_calories(t))

(***************************************************************************)
(* InfoMessage.get_message: str.format with the "{:.3f}" conversion.       *)
(***************************************************************************)
Digit(i) == <<"0", "1", "2", "3", "4", "5", "6", "7", "8", "9">>[i + 1]

RECURSIVE Digits(_)
Digits(n) ==
    IF n < 10 THEN <<Digit(n)>> ELSE Digits(n \div 10) \o <<Digit(n % 10)>>

\* |x| in thousandths, rounded to nearest, ties to even.
Thousandths(x) ==
    LET a == Abs(x[1])
        whole == a \div x[2]
        scaled == (a % x[2]) * 1000
        q == scaled \div x[2]
        r == scaled % x[2]
        up == (2 * r > x[2]) \/ (2 * r = x[2] /\ q % 2 = 1)
    IN  whole * 1000 + q + (IF up THEN 1 ELSE 0)

\* "{}".format(x) of a number: the shortest form, no fixed precision.
FormatShortest(x) ==
    LET m == Thousandths(x)
        f == m % 1000
        tail == IF f = 0 THEN <<"0">>
                ELSE IF f % 100 = 0 THEN <<Digit(f \div 100)>>
                ELSE IF f % 10 = 0
                     THEN <<Digit(f \div 100), Digit((f \div 10) % 10)>>
                ELSE <<Digit(f \div 100), Digit((f \div 10) % 10), Digit(f % 10)>>
    IN  (IF x[1] < 0 THEN <<"-">> ELSE <<>>) \o Digits(m \div 1000)
            \o <<".">> \o tail

\* "{:.3f}".format(x)
Format3f(x) ==
    LET m == Thousandths(x)
        f == m % 1000
    IN  (IF x[1] < 0 THEN <<"-">> ELSE <<>>) \o Digits(m \div 1000)
            \o <<".", Digit(f \div 100), Digit((f \div 10) % 10), Digit(f % 10)>>

get_message(m) ==
    << <<"Tip trenirovki: ">>, <<m.training_type>>,
       <<"; Dlitelnost: ">>, Format3f(m.duration),
       <<" ch.; Distantsiya: ">>, Format3f(m.distance),
       <<" km; Sr. skorost: ">>, Format3f(m.speed),
       <<" km/ch; Potracheno kkal: ">>, Format3f(m.calories),
       <<".">> >>

(***************************************************************************)
(* read_package.                                                           *)
(***************************************************************************)
NoError == [type |-> "None", raised_by |-> "None"]

\* Keys of the workout_types dictionary.
workout_types == {"SWM", "RUN", "WLK"}

\* Number of positional parameters of each class's __init__ (besides self).
Arity(wt) ==
    CASE wt = "RUN" -> 3
      [] wt = "WLK" -> 4
      [] wt = "SWM" -> 5

\* workout_types[wt](*d), for an argument list of the constructor's arity.
Construct(wt, d) ==
    CASE wt = "RUN" -> Running_init(d[1], d[2], d[3])
      [] wt = "WLK" -> SportsWalking_init(d[1], d[2], d[3], d[4])
      [] wt = "SWM" -> Swimming_init(d[1], d[2], d[3], d[4], d[5])

\* The outcome of read_package(wt, d): the object returned, or the exception
\* raised together with the place that raises it.
read_package_casefold(wt, d) ==
    LET up == CASE wt = "run" -> "RUN" [] OTHER -> wt
    IN  IF up \in workout_types
        THEN IF Len(d) = Arity(up)
             THEN [training |-> Construct(up, d), error |-> NoError]
             ELSE [training |-> None,
                   error |-> [type |-> "TypeError", raised_by |-> "__init__"]]
        ELSE [training |-> None,
              error |-> [type |-> "ValueError", raised_by |-> "read_package"]]

read_package_validates(wt, d) ==
    IF wt \in workout_types /\ Len(d) = Arity(wt)
    THEN [training |-> Construct(wt, d), error |-> NoError]
    ELSE [training |-> None,
          error |-> [type |-> "ValueError", raised_by |-> "read_package"]]

read_package(wt, d) ==
    IF wt \in workout_types
    THEN IF Len(d) = Arity(wt)
         THEN [training |-> Construct(wt, d), error |-> NoError]
         ELSE [training |-> None,
               error |-> [type |-> "TypeError", raised_by |-> "__init__"]]
    ELSE [training |-> None,
          error |-> [type |-> "ValueError", raised_by |-> "read_package"]]

(***************************************************************************)
(* Inputs.                                                                 *)
(***************************************************************************)
Codes == {"SWM", "RUN", "WLK", "XYZ", "run"}

\* Values a sensor package carries at position i.
ArgValues(i) ==
    CASE i = 1 -> {Num(720), Num(15000), Num(9000), Num(0)}
      [] i = 2 -> {Num(1), <<1, 2>>, Num(2), Num(0)}
      [] i = 3 -> {Num(75), Num(80)}
      [] i = 4 -> {Num(180), Num(25), Num(3), Num(0), Num(-3)}
      [] i = 5 -> {Num(40), Num(2)}
      [] OTHER -> {Num(1)}

\* The argument lists of length n.
RECURSIVE Packages(_)
Packages(n) ==
    IF n = 0 THEN {<<>>}
    ELSE {Append(d, v) : d \in Packages(n - 1), v \in ArgValues(n)}

(***************************************************************************)
(* The driver: for each package, read_package, then main.                  *)
(***************************************************************************)
Init ==
    /\ pc = "idle"
    /\ workout_type = ""
    /\ data = <<>>
    /\ training = None
    /\ info = NoInfo
    /\ result = <<>>
    /\ error = NoError

\* training = read_package(workout_type, data)
ReadPackage ==
    /\ pc = "idle"
    /\ \E wt \in Codes, n \in 0..MaxArgs :
         \E d \in Packages(n) :
           LET r == read_package(wt, d)
           IN  /\ workout_type' = wt
               /\ data' = d
               /\ training' = r.training
               /\ error' = r.error
               /\ pc' = IF r.error = NoError THEN "read" ELSE "raised"
    /\ UNCHANGED <<info, result>>

\* info = training.show_training_info()
ShowTrainingInfo ==
    /\ pc = "read"
    /\ IF ShowRaises(training)
       THEN /\ error' = [type |-> "ZeroDivisionError",
                         raised_by |-> "show_training_info"]
            /\ pc' = "raised"
            /\ UNCHANGED info
       ELSE /\ info' = show_training_info(training)
            /\ pc' = "shown"
            /\ UNCHANGED error
    /\ UNCHANGED <<workout_type, data, training, result>>

\* result = info.get_message(); print(result)
GetMessage ==
    /\ pc = "shown"
    /\ result' = get_message(info)
    /\ pc' = "printed"
    /\ UNCHANGED <<workout_type, data, training, info, error>>

\* The loop takes the next package.
NextPackage ==
    /\ pc = "printed"
    /\ pc' = "idle"
    /\ workout_type' = ""
    /\ data' = <<>>
    /\ training' = None
    /\ info' = NoInfo
    /\ result' = <<>>
    /\ UNCHANGED error

Next == ReadPackage \/ ShowTrainingInfo \/ GetMessage \/ NextPackage

Spec == Init /\ [][Next]_vars

(***************************************************************************)
(* Properties.                                                             *)
(***************************************************************************)
Built == training # None

Reported == pc \in {"shown", "printed"}

\* C1: for every activity code that is not "RUN", "WLK" or "SWM", and every
\* argument list, read_package raises the invalid-code error (ValueError)
\* itself: no activity is returned and the record is not skipped, so nothing
\* is reported or printed for it.
C1_InvalidCodeRaises ==
    (pc # "idle" /\ workout_type \notin {"RUN", "WLK", "SWM"}) =>
        /\ pc = "raised"
        /\ error = [type |-> "ValueError", raised_by |-> "read_package"]
        /\ training = None
        /\ info = NoInfo
        /\ result = <<>>

C1_Witness ==
    /\ pc = "raised"
    /\ workout_type = "XYZ"
    /\ Len(data) = 3
    /\ error.type = "ValueError"

\* The number of arguments each recognized code expects.
ExpectedLength(wt) == IF wt = "RUN" THEN 3 ELSE IF wt = "WLK" THEN 4 ELSE 5

WrongLength ==
    /\ pc # "idle"
    /\ workout_type \in {"RUN", "WLK", "SWM"}
    /\ Len(data) # ExpectedLength(workout_type)

\* C2 (as stated): a recognized code with an argument list of the wrong
\* length makes read_package fail with an error of a type other than the
\* invalid-code error, raised by read_package's own validation and not by
\* the variant constructor; no activity is returned.
C2_Original ==
    WrongLength =>
        /\ pc = "raised"
        /\ error.type # "ValueError"
        /\ error.raised_by = "read_package"
        /\ training = None

\* C2 (amended): a recognized code with an argument list of the wrong length
\* makes read_package fail with a TypeError, distinct from the ValueError of
\* an invalid code, raised by the call of the variant constructor
\* (read_package validates no length itself); no activity is returned.
C2_WrongLengthTypeError ==
    WrongLength =>
        /\ pc = "raised"
        /\ error = [type |-> "TypeError", raised_by |-> "__init__"]
        /\ training = None
        /\ info = NoInfo
        /\ result = <<>>

C2_Witness ==
    /\ pc = "raised"
    /\ workout_type = "SWM"
    /\ Len(data) = 3
    /\ error.type = "TypeError"

RunReference ==
    /\ workout_type = "RUN"
    /\ data = <<Num(15000), Num(1), Num(75)>>

\* C3 (as stated): read_package("RUN", [15000, 1, 75]) reports distance
\* 9.750, mean speed 9.750 and calories 693.000.
C3_Original ==
    RunReference =>
        /\ pc # "raised"
        /\ Reported =>
             /\ Format3f(info.distance) = <<"9", ".", "7", "5", "0">>
             /\ Format3f(info.speed) = <<"9", ".", "7", "5", "0">>
             /\ Format3f(info.calories) = <<"6", "9", "3", ".", "0", "0", "0">>

\* C3 (amended): read_package("RUN", [15000, 1, 75]) reports distance 9.750,
\* mean speed 9.750 and calories 699.750, the value of
\* (18 * meanSpeed - 20) * weight / 1000 * 60 * duration, and prints them so.
C3_RunReference ==
    RunReference =>
        /\ pc # "raised"
        /\ Reported =>
             /\ info.distance = <<39, 4>>
             /\ info.speed = <<39, 4>>
             /\ info.calories = <<2799, 4>>
        /\ pc = "printed" =>
             /\ result[6] = <<"9", ".", "7", "5", "0">>
             /\ result[8] = <<"9", ".", "7", "5", "0">>
             /\ result[10] = <<"6", "9", "9", ".", "7", "5", "0">>

C3_Witness == RunReference /\ pc = "printed"

SwimReference ==
    /\ workout_type = "SWM"
    /\ data = <<Num(720), Num(1), Num(80), Num(25), Num(40)>>

\* C4 (as stated): read_package("SWM", [720, 1, 80, 25, 40]) reports
\* distance 0.468, mean speed 1.000 and calories 336.000.
C4_Original ==
    SwimReference =>
        /\ pc # "raised"
        /\ Reported =>
             /\ Format3f(info.distance) = <<"0", ".", "4", "6", "8">>
             /\ Format3f(info.speed) = <<"1", ".", "0", "0", "0">>
             /\ Format3f(info.calories) = <<"3", "3", "6", ".", "0", "0", "0">>

\* C4 (amended): read_package("SWM", [720, 1, 80, 25, 40]) reports distance
\* 0.994 (720 * 1.38 / 1000 = 0.9936), mean speed 25 * 40 / 1000 / 1 = 1.000
\* and calories (1.000 + 1.1) * 2 * 80 = 336.000, and prints them so.
C4_SwimReference ==
    SwimReference =>
        /\ pc # "raised"
        /\ Reported =>
             /\ info.distance = <<621, 625>>
             /\ info.speed = <<1, 1>>
             /\ info.calories = <<336, 1>>
        /\ pc = "printed" =>
             /\ result[6] = <<"0", ".", "9", "9", "4">>
             /\ result[8] = <<"1", ".", "0", "0", "0">>
             /\ result[10] = <<"3", "3", "6", ".", "0", "0", "0">>

C4_Witness == SwimReference /\ pc = "printed"

ValidPackage ==
    /\ pc # "idle"
    /\ workout_type \in {"RUN", "WLK", "SWM"}
    /\ Len(data) = ExpectedLength(workout_type)

\* C5: read_package maps each recognized code to its own variant and binds
\* the argument list by position: "RUN" gives a Running with (action,
\* duration, weight), "WLK" a SportsWalking with (action, duration, weight,
\* height), "SWM" a Swimming with (action, duration, weight, length_pool,
\* count_pool); the i-th argument is the i-th field and no other variant is
\* built for the code.
C5_PositionalBinding ==
    /\ ValidPackage => Built
    /\ Built =>
         /\ ValidPackage
         /\ workout_type = "RUN" =>
              training = [cls |-> "Running", action |-> data[1],
                          duration_hour |-> data[2], weight |-> data[3]]
         /\ workout_type = "WLK" =>
              training = [cls |-> "SportsWalking", action |-> data[1],
                          duration_hour |-> data[2], weight |-> data[3],
                          height |-> data[4]]
         /\ workout_type = "SWM" =>
              training = [cls |-> "Swimming", action |-> data[1],
                          duration_hour |-> data[2], weight |-> data[3],
                          length_pool |-> data[4], count_pool |-> data[5]]

C5_Witness ==
    /\ pc = "read"
    /\ workout_type = "SWM"
    /\ training.cls = "Swimming"
    /\ training.length_pool = Num(25)
    /\ training.count_pool = Num(40)

\* The step length of each variant, in hundredths of a metre.
StepHundredths(cls) == IF cls = "Swimming" THEN 138 ELSE 65

\* x = a * step / 100 / 1000, by cross multiplication.
IsStrideDistance(x, a, step) ==
    /\ x[2] > 0
    /\ x[1] * a[2] * 1000 * 100 = a[1] * step * x[2]

\* The activities that differ from t in fields other than action.
OtherFieldsVaried(t) ==
    CASE t.cls = "Running" ->
           {[t EXCEPT !.duration_hour = d, !.weight = w] :
              d \in ArgValues(2), w \in ArgValues(3)}
      [] t.cls = "SportsWalking" ->
           {[t EXCEPT !.duration_hour = d, !.weight = w, !.height = h] :
              d \in ArgValues(2), w \in ArgValues(3), h \in ArgValues(4)}
      [] t.cls = "Swimming" ->
           UNION {{[t EXCEPT !.duration_hour = d, !.weight = w,
                             !.length_pool = l, !.count_pool = c] :
                     d \in ArgValues(2), w \in ArgValues(3)} :
                  l \in ArgValues(4), c \in ArgValues(5)}

\* C6: for every activity of every variant get_distance is
\* action * step / 1000 with step 0.65 for Running and SportsWalking and
\* 1.38 for Swimming, whatever the other fields are; the report carries
\* that distance.
C6_Distance ==
    Built =>
        /\ IsStrideDistance(get_distance(training), training.action,
                            StepHundredths(training.cls))
        /\ \A u \in OtherFieldsVaried(training) :
             get_distance(u) = get_distance(training)
        /\ Reported =>
             IsStrideDistance(info.distance, training.action,
                              StepHundredths(training.cls))

C6_Witness ==
    /\ pc = "shown"
    /\ training.cls = "Swimming"
    /\ training.action = Num(720)
    /\ info.distance = <<621, 625>>

\* x = l * c / 1000 / d, by cross multiplication (d nonzero).
IsPoolSpeed(x, l, c, d) ==
    /\ x[2] > 0
    /\ x[1] * 1000 * d[1] * l[2] * c[2] = l[1] * c[1] * d[2] * x[2]

\* C7: Swimming.get_mean_speed is length_pool * count_pool / 1000 / duration;
\* two swimming activities that agree on length_pool, count_pool and
\* duration have the same mean speed whatever their action and weight, and
\* it is this speed, not distance / duration, that is reported.
C7_SwimSpeedIndependent ==
    (Built /\ training.cls = "Swimming") =>
        /\ \A a \in ArgValues(1), w \in ArgValues(3) :
             get_mean_speed([training EXCEPT !.action = a, !.weight = w])
                = get_mean_speed(training)
        /\ training.duration_hour[1] # 0 =>
             IsPoolSpeed(get_mean_speed(training), training.length_pool,
                         training.count_pool, training.duration_hour)
        /\ Reported =>
             IsPoolSpeed(info.speed, training.length_pool,
                         training.count_pool, training.duration_hour)

C7_Witness ==
    /\ pc = "shown"
    /\ training.cls = "Swimming"
    /\ training.action = Num(15000)
    /\ info.speed = <<1, 1>>
    /\ info.speed # Div(get_distance(training), training.duration_hour)

\* The floor of the rational q: the integer k with k <= q < k + 1.
IsFloorOf(k, q) == k * q[2] <= q[1] /\ q[1] < (k + 1) * q[2]

\* (0.035 * w + k * 0.029 * w) * 60 * d
WalkingCalories(k, w, d) ==
    Mul(Mul(Add(Mul(<<35, 1000>>, w), Mul(Mul(Num(k), <<29, 1000>>), w)),
            Num(60)), d)

WalkingQuotient == Div(Square(get_mean_speed(training)), training.height)

\* C8: SportsWalking.get_spent_calories is
\* (0.035 * weight + floor(speed^2 / height) * 0.029 * weight) * 60 * duration
\* with the quotient floored, not divided truly; when speed^2 < height the
\* second term is 0.
C8_WalkingFloor ==
    (Built /\ training.cls = "SportsWalking"
        /\ training.duration_hour[1] # 0 /\ training.height[1] # 0) =>
        LET q == WalkingQuotient
            k == q[1] \div q[2]
            square == Square(get_mean_speed(training))
            below == Sub(square, training.height)[1] < 0
        IN  /\ IsFloorOf(k, q)
            /\ get_spent_calories(training)
                 = WalkingCalories(k, training.weight, training.duration_hour)
            /\ below =>
                 get_spent_calories(training)
                   = Mul(Mul(Mul(<<35, 1000>>, training.weight), Num(60)),
                         training.duration_hour)
            /\ Reported => info.calories = get_spent_calories(training)

C8_Witness ==
    /\ pc = "shown"
    /\ training.cls = "SportsWalking"
    /\ training.height = Num(25)
    /\ WalkingQuotient = <<13689, 10000>>
    /\ info.calories = WalkingCalories(1, training.weight, training.duration_hour)

C8_WitnessBelow ==
    /\ pc = "shown"
    /\ training.cls = "SportsWalking"
    /\ training.height = Num(180)
    /\ training.action = Num(9000)
    /\ info.calories = WalkingCalories(0, training.weight, training.duration_hour)

\* Inputs on which no formula divides by zero.
NoZeroDivisor ==
    /\ training.duration_hour[1] # 0
    /\ training.cls = "SportsWalking" => training.height[1] # 0

\* C9: for every activity built from a valid input show_training_info
\* returns the report (class name, duration, get_distance(),
\* get_mean_speed(), get_spent_calories()) of that activity, in this order,
\* the name being "Running", "SportsWalking" or "Swimming" and the speed and
\* calories those of the variant's own methods (for Swimming the pool speed).
C9_Report ==
    /\ (Built /\ NoZeroDivisor) => pc # "raised"
    /\ Reported =>
         /\ Built
         /\ DOMAIN info
              = {"training_type", "duration", "distance", "speed", "calories"}
         /\ info.training_type = training.cls
         /\ info.training_type \in {"Running", "SportsWalking", "Swimming"}
         /\ workout_type = "RUN" => info.training_type = "Running"
         /\ workout_type = "WLK" => info.training_type = "SportsWalking"
         /\ workout_type = "SWM" => info.training_type = "Swimming"
         /\ info.duration = training.duration_hour
         /\ info.distance = get_distance(training)
         /\ info.speed =
              (IF training.cls = "Swimming"
               THEN Swimming_get_mean_speed(training)
               ELSE Training_get_mean_speed(training))
         /\ info.calories =
              (CASE training.cls = "Running" ->
                      Running_get_spent_calories(training)
                 [] training.cls = "SportsWalking" ->
                      SportsWalking_get_spent_calories(training)
                 [] training.cls = "Swimming" ->
                      Swimming_get_spent_calories(training))

C9_Witness ==
    /\ pc = "shown"
    /\ info.training_type = "Swimming"
    /\ info.speed = <<1, 2>>
    /\ info.speed # Training_get_mean_speed(training)

DigitChars == {"0", "1", "2", "3", "4", "5", "6", "7", "8", "9"}

DigitValue(c) == CHOOSE i \in 0..9 : Digit(i) = c

\* The number written by the digits s[from..to].
RECURSIVE Decimal(_, _, _)
Decimal(s, from, to) ==
    IF to < from THEN 0
    ELSE Decimal(s, from, to - 1) * 10 + DigitValue(s[to])

\* s is x in fixed point with exactly three decimals: an optional minus
\* sign, the integer part without leading zeros, a point, three digits;
\* its value is within half a thousandth of x.
IsFixed3(s, x) ==
    LET n == Len(s)
        first == IF n > 0 /\ s[1] = "-" THEN 2 ELSE 1
    IN  /\ n >= first + 4
        /\ (first = 2) <=> (x[1] < 0)
        /\ s[n - 3] = "."
        /\ \A i \in first..n : i # n - 3 => s[i] \in DigitChars
        /\ (n - 4 > first) => s[first] # "0"
        /\ LET a == Abs(x[1])
               whole == Decimal(s, first, n - 4)
               frac == Decimal(s, n - 2, n)
               rest == a - whole * x[2]
           IN  2 * Abs(frac * x[2] - 1000 * rest) <= x[2]

\* C10: get_message returns the template filled with name, duration,
\* distance, speed and calories in this order, each of the four numbers in
\* fixed point with exactly 3 decimals (1 is written 1.000), and ends with
\* a period.
C10_Message ==
    pc = "printed" =>
        /\ Len(result) = 11
        /\ result[1] = <<"Tip trenirovki: ">>
        /\ result[2] = <<info.training_type>>
        /\ result[3] = <<"; Dlitelnost: ">>
        /\ IsFixed3(result[4], info.duration)
        /\ result[5] = <<" ch.; Distantsiya: ">>
        /\ IsFixed3(result[6], info.distance)
        /\ result[7] = <<" km; Sr. skorost: ">>
        /\ IsFixed3(result[8], info.speed)
        /\ result[9] = <<" km/ch; Potracheno kkal: ">>
        /\ IsFixed3(result[10], info.calories)
        /\ result[11] = <<".">>

C10_Witness ==
    /\ pc = "printed"
    /\ info.duration = Num(1)
    /\ result[4] = <<"1", ".", "0", "0", "0">>
    /\ result[11] = <<".">>

====
